---- MODULE Spec2Model ----
(***************************************************************************)
(* One run of src/app.py, the SuperStore KPI dashboard script: load the    *)
(* spreadsheet, narrow it with the four sidebar pickers and the date       *)
(* range, compute the KPI tiles, build the grouped chart tables and the    *)
(* month-wise Sub-Category summary.                                        *)
(*                                                                         *)
(* A DataFrame is a sequence of rows; a row is a function from column name *)
(* to value.  DataFrames live on a heap and the script's names hold        *)
(* references, so that `a = b` aliases and `.copy()` / boolean indexing    *)
(* allocate.  Measures are integers and ratios are exact fractions         *)
(* <<n, d>>; d = 0 encodes the IEEE values a float division by zero gives  *)
(* (<<1,0>> = inf, <<-1,0>> = -inf, <<0,0>> = NaN).                        *)
(* Calendar dates are day numbers of a small model calendar; NaT is a null *)
(* date.  Every widget value is an input of the run, drawn from the        *)
(* options the widget offers.                                              *)
(***************************************************************************)
EXTENDS Integers, Sequences, FiniteSets, TLC

VARIABLES
    source,                 \* the spreadsheet on disk: [readable, rows]
    pc,                     \* position of the run in the script
    exception,              \* the exception that ended the run, or "None"
    notices,                \* messages shown with st.error / st.warning
    heap,                   \* the DataFrame objects allocated so far
    df_original, df_filtered_region, df_filtered_state,
    df_filtered_category, df,          \* references into heap (0 = unbound)
    selected_region, selected_state, selected_category, selected_subcat,
    from_date, to_date,
    total_sales, total_quantity, total_profit, margin_rate,
    selected_kpi,
    monthly_grouped, product_grouped, top_10,
    category_grouped, segment_grouped,
    year_filter, month_filter, monthly_data

vars == <<source, pc, exception, notices, heap, df_original,
          df_filtered_region, df_filtered_state, df_filtered_category, df,
          selected_region, selected_state, selected_category, selected_subcat,
          from_date, to_date, total_sales, total_quantity, total_profit,
          margin_rate, selected_kpi, monthly_grouped, product_grouped, top_10,
          category_grouped, segment_grouped, year_filter, month_filter,
          monthly_data>>

----------------------------------------------------------------------------
(* Bounds of the model *)

MaxRows == 2            \* rows of a small dataset
MaxDay == 3             \* Order Dates are days 1..MaxDay of the model calendar
DaysPerMonth == 2       \* days in a month of the model calendar
MonthsPerYear == 1      \* months in a year of the model calendar
WideCount == 11         \* products of a wide dataset (more than the top 10)

(* Program constants *)

TopN == 10
Thousand == 1000
Million == 1000000

----------------------------------------------------------------------------
(* Values *)

NaT == 0                \* pandas' null timestamp
NaN == "NaN"            \* a null cell of a text column
All == "All"
None == "None"          \* a name the run has not bound
Unbound == [prefix |-> "", value |-> 0, decimals |-> 0, suffix |-> "unbound"]

\* The text columns' values in alphabetical (sorted()) order.
Alphabet ==
    <<"CA", "Chair A", "Chairs", "Consumer", "Corporate", "East", "Furniture",
      "NY", "P01", "P02", "P03", "P04", "P05", "P06", "P07", "P08", "P09",
      "P10", "P11", "P12", "P13", "Phone C", "Phones", "Table B", "Tables",
      "Technology", "West">>

Rank(s) == CHOOSE i \in 1..Len(Alphabet) : Alphabet[i] = s

\* The dates' calendar fields (dt.year, dt.to_period('M'), strftime('%Y-%m')).
YearOf(d) == (d - 1) \div (DaysPerMonth * MonthsPerYear)
MonthOf(d) == (d - 1) \div DaysPerMonth

----------------------------------------------------------------------------
(* The datasets the spreadsheet may hold *)

Row(region, state, cat, sub, prod, seg, date, sales, qty, profit) ==
    [c \in {"Region", "State", "Category", "Sub-Category", "Product Name",
            "Segment", "Order Date", "Sales", "Quantity", "Profit"} |->
        CASE c = "Region" -> region
          [] c = "State" -> state
          [] c = "Category" -> cat
          [] c = "Sub-Category" -> sub
          [] c = "Product Name" -> prod
          [] c = "Segment" -> seg
          [] c = "Order Date" -> date
          [] c = "Sales" -> sales
          [] c = "Quantity" -> qty
          [] c = "Profit" -> profit]

Places == {<<"East", "NY">>, <<"West", "CA">>}
Catalogue == {<<"Furniture", "Chairs", "Chair A">>,
              <<"Technology", "Phones", "Phone C">>}

\* Rows that differ in the filter dimensions; one has no Region, one no
\* Order Date, one is a second Sub-Category of Furniture.
FilterRows ==
    {Row(g[1], g[2], p[1], p[2], p[3], "Consumer", d, 2, 1, 1) :
        g \in Places, p \in Catalogue, d \in {1, MaxDay}}
    \cup {Row(NaN, "CA", "Technology", "Phones", "Phone C", "Corporate",
              MaxDay, 2, 1, 1),
          Row("West", "CA", "Furniture", "Chairs", "Chair A", "Consumer",
              NaT, 2, 1, 1),
          Row("East", "NY", "Furniture", "Tables", "Table B", "Corporate",
              1, 2, 1, 1)}

\* Rows of one place and day that differ in the measures.
MeasureRows ==
    {Row("East", "NY", "Furniture", "Chairs", p, "Consumer", 1, s, 1, pr) :
        p \in {"Chair A", "P01"}, s \in {0, 1}, pr \in {-1, 1}}

SeqsUpTo(S, n) == UNION {[1..k -> S] : k \in 0..n}

\* A dataset with n products, one row each; pattern 1 has Sales rising with
\* the product name, pattern 2 scatters them and repeats Quantity values.
WideRow(i, n, pattern) ==
    Row("East", "NY", "Furniture", "Chairs", Alphabet[Rank("P01") + i - 1],
        IF i % 2 = 0 THEN "Consumer" ELSE "Corporate", 1,
        IF pattern = 1 THEN i ELSE (i * 5) % (n + 2),
        1 + (i % 3),
        IF pattern = 1 THEN n - 2 * i ELSE i - 3)

WideDataset(n, pattern) == [i \in 1..n |-> WideRow(i, n, pattern)]

Datasets ==
    SeqsUpTo(FilterRows, MaxRows) \cup SeqsUpTo(MeasureRows, MaxRows)
    \cup {WideDataset(n, pattern) : n \in {TopN, WideCount},
                                    pattern \in {1, 2}}

----------------------------------------------------------------------------
(* DataFrame operations *)

Rows(ref) == heap[ref]

\* frame[frame[col] == value]: a null cell equals nothing
SelectRows(rows, col, value) ==
    SelectSeq(rows, LAMBDA r : r[col] # NaN /\ r[col] = value)

ColumnValues(rows, col) == {rows[i][col] : i \in 1..Len(rows)}

\* sorted(frame[col].dropna().unique()), as the set of options it offers
Options(rows, col) == ColumnValues(rows, col) \ {NaN}

\* InRange with the lower bound left out of the range.
InRangeAbove(d, lo, hi) ==
    /\ d # NaT /\ lo # NaT /\ hi # NaT
    /\ d > lo
    /\ d <= hi

\* InRange with the upper bound left out of the range.
InRangeBelow(d, lo, hi) ==
    /\ d # NaT /\ lo # NaT /\ hi # NaT
    /\ d >= lo
    /\ d < hi

\* df = df[(df["Order Date"] >= lo) & (df["Order Date"] <= hi)]: a comparison
\* with NaT on either side is False
InRange(d, lo, hi) ==
    /\ d # NaT /\ lo # NaT /\ hi # NaT
    /\ d >= lo
    /\ d <= hi

\* SelectDateRange with the two dates put in order first.
SelectDateRangeSwapped(rows, lo, hi) ==
    IF lo # NaT /\ hi # NaT /\ lo > hi
    THEN SelectSeq(rows, LAMBDA r : InRange(r["Order Date"], hi, lo))
    ELSE SelectSeq(rows, LAMBDA r : InRange(r["Order Date"], lo, hi))

SelectDateRange(rows, lo, hi) ==
    SelectSeq(rows, LAMBDA r : InRange(r["Order Date"], lo, hi))

\* frame[col] = values: adds the column or overwrites it
WithColumn(rows, col, values) ==
    [i \in 1..Len(rows) |-> (col :> values[i]) @@ rows[i]]

\* Series.min() / Series.max() of the Order Date column: nulls are skipped,
\* and the result is NaT when nothing is left
MinDate(rows) ==
    LET ds == ColumnValues(rows, "Order Date") \ {NaT}
    IN IF ds = {} THEN NaT ELSE CHOOSE d \in ds : \A e \in ds : d <= e

MaxDate(rows) ==
    LET ds == ColumnValues(rows, "Order Date") \ {NaT}
    IN IF ds = {} THEN NaT ELSE CHOOSE d \in ds : \A e \in ds : d >= e

RECURSIVE SumColumn(_, _)
\* frame[col].sum() of an integer column
SumColumn(rows, col) ==
    IF rows = <<>> THEN 0 ELSE Head(rows)[col] + SumColumn(Tail(rows), col)

----------------------------------------------------------------------------
(* Float arithmetic on exact fractions *)

Abs(x) == IF x < 0 THEN -x ELSE x
Sign(x) == IF x > 0 THEN 1 ELSE IF x < 0 THEN -1 ELSE 0

RECURSIVE GCD(_, _)
GCD(a, b) == IF b = 0 THEN a ELSE GCD(b, a % b)

Fraction(n, d) ==
    LET g == GCD(Abs(n), Abs(d))
    IN IF d > 0 THEN <<n \div g, d \div g>> ELSE <<(-n) \div g, (-d) \div g>>

IsNaN(x) == x = <<0, 0>>
IsFinite(x) == x[2] # 0

\* p / s of two float cells: a zero divisor gives inf, -inf or NaN, no error
Divide(p, s) == IF s = 0 THEN <<Sign(p), 0>> ELSE Fraction(p, s)

Times(x, k) == IF IsFinite(x) THEN Fraction(x[1] * k, x[2]) ELSE x

Plus(x, y) ==
    IF IsNaN(x) \/ IsNaN(y) THEN <<0, 0>>
    ELSE IF IsFinite(x) /\ IsFinite(y)
         THEN Fraction(x[1] * y[2] + y[1] * x[2], x[2] * y[2])
    ELSE IF IsFinite(x) THEN y
    ELSE IF IsFinite(y) THEN x
    ELSE IF x = y THEN x ELSE <<0, 0>>

Less(x, y) == x[1] * y[2] < y[1] * x[2]

RECURSIVE SumFractions(_, _)
\* groupby(...)[col].sum() of a float column: NaN cells are skipped
SumFractions(rows, col) ==
    IF rows = <<>> THEN <<0, 1>>
    ELSE LET rest == SumFractions(Tail(rows), col)
         IN IF IsNaN(Head(rows)[col]) THEN rest ELSE Plus(Head(rows)[col], rest)

\* round(a / b) to the nearest integer, ties to even, as the :.1f and :.2f
\* format specifications round
RoundDiv(a, b) ==
    LET n == IF b < 0 THEN -a ELSE a
        d == Abs(b)
        q == n \div d
        r == n % d
    IN IF 2 * r < d THEN q
       ELSE IF 2 * r > d THEN q + 1
       ELSE IF q % 2 = 0 THEN q ELSE q + 1

----------------------------------------------------------------------------
(* KPI tiles: a formatted string is its prefix, the number it shows as an  *)
(* integer count of its last decimal place, and its suffix                 *)

Text(prefix, value, decimals, suffix) ==
    [prefix |-> prefix, value |-> value, decimals |-> decimals,
     suffix |-> suffix]

format_number(num) ==
    IF num >= Million THEN Text("$", RoundDiv(num * 100, Million), 2, "M")
    ELSE IF num >= Thousand THEN Text("$", RoundDiv(num * 10, Thousand), 1, "K")
    ELSE Text("$", num * 100, 2, "")

QuantityText(rows) ==
    IF rows = <<>> THEN Text("", 0, 0, "")
    ELSE Text("", RoundDiv(SumColumn(rows, "Quantity") * 10, Thousand), 1, "K")

MarginRateText(rows) ==
    IF rows = <<>> THEN Text("", 0, 2, "%")
    ELSE IF SumColumn(rows, "Sales") # 0
         THEN Text("", RoundDiv(SumColumn(rows, "Profit") * 10000,
                                SumColumn(rows, "Sales")), 2, "%")
         ELSE Text("", 0, 2, "%")

----------------------------------------------------------------------------
(* Grouping *)

\* The keys of a set in ascending order of ord, a function on the keys
SortedKeys(keys, ord) ==
    [i \in 1..Cardinality(keys) |->
        CHOOSE k \in keys : Cardinality({j \in keys : ord[j] < ord[k]}) = i - 1]

\* frame.groupby(col).agg({Sales: sum, Quantity: sum, Profit: sum})
\*      .reset_index(): one row per key, in ascending key order
GroupSums(rows, col, keys, ord) ==
    LET sorted == SortedKeys(keys, ord)
        Group(k) == SelectSeq(rows, LAMBDA r : r[col] = k)
    IN [i \in 1..Len(sorted) |->
          (col :> sorted[i]) @@
          [Sales |-> SumColumn(Group(sorted[i]), "Sales"),
           Quantity |-> SumColumn(Group(sorted[i]), "Quantity"),
           Profit |-> SumColumn(Group(sorted[i]), "Profit")]]

\* grouped["Profit"] / grouped["Sales"].replace(0, 1)
GroupMarginRate(profit, sales) ==
    Divide(profit, IF sales = 0 THEN 1 ELSE sales)

WithMarginRate(grouped, scale) ==
    WithColumn(grouped, "Margin Rate",
               [i \in 1..Len(grouped) |->
                   Times(GroupMarginRate(grouped[i]["Profit"],
                                         grouped[i]["Sales"]), scale)])

\* The order of text keys and of month keys
Alphabetical(keys) == [k \in keys |-> Rank(k)]
Chronological(keys) == [k \in keys |-> k]

MonthlyGrouped(rows) ==
    WithMarginRate(GroupSums(rows, "MonthYear",
                             ColumnValues(rows, "MonthYear"),
                             Chronological(ColumnValues(rows, "MonthYear"))), 1)

ProductGrouped(rows) ==
    WithMarginRate(GroupSums(rows, "Product Name",
                             Options(rows, "Product Name"),
                             Alphabetical(Options(rows, "Product Name"))), 1)

CategoryGrouped(rows) ==
    WithMarginRate(GroupSums(rows, "Category",
                             Options(rows, "Category"),
                             Alphabetical(Options(rows, "Category"))), 100)

SegmentGrouped(rows) ==
    WithMarginRate(GroupSums(rows, "Segment",
                             Options(rows, "Segment"),
                             Alphabetical(Options(rows, "Segment"))), 100)

\* The value of a KPI column in a row, as a fraction
KpiValue(row, kpi) ==
    IF kpi = "Margin Rate" THEN row[kpi] ELSE <<row[kpi], 1>>

\* SortDescending with the order turned round.
SortAscending(rows, kpi) ==
    LET Position(i) ==
            1 + Cardinality({j \in 1..Len(rows) :
                    \/ Less(KpiValue(rows[j], kpi), KpiValue(rows[i], kpi))
                    \/ (j < i /\ KpiValue(rows[j], kpi) = KpiValue(rows[i], kpi))})
    IN [p \in 1..Len(rows) |-> rows[CHOOSE i \in 1..Len(rows) : Position(i) = p]]

\* frame.sort_values(by=kpi, ascending=False): rows with equal values keep
\* their order (the frames here are short enough for numpy to sort them by
\* insertion)
SortDescending(rows, kpi) ==
    LET Position(i) ==
            1 + Cardinality({j \in 1..Len(rows) :
                    \/ Less(KpiValue(rows[i], kpi), KpiValue(rows[j], kpi))
                    \/ (j < i /\ KpiValue(rows[j], kpi) = KpiValue(rows[i], kpi))})
    IN [p \in 1..Len(rows) |-> rows[CHOOSE i \in 1..Len(rows) : Position(i) = p]]

\* frame.head(10)
HeadRows(rows) == SubSeq(rows, 1, IF Len(rows) < TopN THEN Len(rows) ELSE TopN)

\* filtered_data.groupby(['Month', 'Sub-Category'])[kpi].sum().reset_index()
\* for rows of a single Month
MonthlyData(rows, month, kpi) ==
    LET keys == Options(rows, "Sub-Category")
        sorted == SortedKeys(keys, Alphabetical(keys))
        Group(k) == SelectSeq(rows, LAMBDA r : r["Sub-Category"] = k)
    IN [i \in 1..Len(sorted) |->
          ("Month" :> month) @@ ("Sub-Category" :> sorted[i]) @@
          (kpi :> IF kpi = "Margin Rate"
                  THEN SumFractions(Group(sorted[i]), kpi)
                  ELSE SumColumn(Group(sorted[i]), kpi))]

----------------------------------------------------------------------------
(* The run *)

Init ==
    /\ source \in [readable : BOOLEAN, rows : Datasets]
    /\ source.readable \/ source.rows = <<>>
    /\ pc = "load_data"
    /\ exception = None
    /\ notices = {}
    /\ heap = <<>>
    /\ df_original = 0 /\ df_filtered_region = 0 /\ df_filtered_state = 0
    /\ df_filtered_category = 0 /\ df = 0
    /\ selected_region = None /\ selected_state = None
    /\ selected_category = None /\ selected_subcat = None
    /\ from_date = NaT /\ to_date = NaT
    /\ total_sales = Unbound /\ total_quantity = Unbound
    /\ total_profit = Unbound /\ margin_rate = Unbound
    /\ selected_kpi = None
    /\ monthly_grouped = <<>> /\ product_grouped = <<>> /\ top_10 = <<>>
    /\ category_grouped = <<>> /\ segment_grouped = <<>>
    /\ year_filter = None /\ month_filter = None /\ monthly_data = <<>>

\* An uncaught exception ends the run where it is raised.
Raise(name) == pc' = "raised" /\ exception' = name

\* Lines 13-22: df_original = load_data(); read_excel raises when the file
\* cannot be read, and nothing catches it.
LoadData ==
    /\ pc = "load_data"
    /\ IF source.readable
       THEN /\ heap' = <<source.rows>>
            /\ df_original' = 1
            /\ pc' = "region"
            /\ UNCHANGED exception
       ELSE /\ Raise("FileNotFoundError")
            /\ UNCHANGED <<heap, df_original>>
    /\ UNCHANGED <<source, notices, df_filtered_region, df_filtered_state,
                   df_filtered_category, df, selected_region, selected_state,
                   selected_category, selected_subcat, from_date, to_date,
                   total_sales, total_quantity, total_profit, margin_rate,
                   selected_kpi, monthly_grouped, product_grouped, top_10,
                   category_grouped, segment_grouped, year_filter,
                   month_filter, monthly_data>>

\* StateOptionsFrame reading the loaded frame instead of the narrowed one.
StateOptionsUnnarrowed == df_original

\* The frames the State, Category and Sub-Category pickers read their
\* options from.
StateOptionsFrame == df_filtered_region
CategoryOptionsFrame == df_filtered_state
SubcatOptionsFrame == df_filtered_category

\* Lines 38-46: the Region picker and its filter.
SelectRegion ==
    /\ pc = "region"
    /\ \E choice \in {All} \cup Options(Rows(df_original), "Region") :
        /\ selected_region' = choice
        /\ IF choice # All
           THEN /\ heap' = Append(heap, SelectRows(Rows(df_original), "Region", choice))
                /\ df_filtered_region' = Len(heap) + 1
           ELSE /\ df_filtered_region' = df_original
                /\ UNCHANGED heap
    /\ pc' = "state"
    /\ UNCHANGED <<source, exception, notices, df_original, df_filtered_state,
                   df_filtered_category, df, selected_state,
                   selected_category, selected_subcat, from_date, to_date,
                   total_sales, total_quantity, total_profit, margin_rate,
                   selected_kpi, monthly_grouped, product_grouped, top_10,
                   category_grouped, segment_grouped, year_filter,
                   month_filter, monthly_data>>

\* Lines 48-56: the State picker and its filter.
SelectState ==
    /\ pc = "state"
    /\ \E choice \in {All} \cup Options(Rows(StateOptionsFrame), "State") :
        /\ selected_state' = choice
        /\ IF choice # All
           THEN /\ heap' = Append(heap, SelectRows(Rows(df_filtered_region), "State", choice))
                /\ df_filtered_state' = Len(heap) + 1
           ELSE /\ df_filtered_state' = df_filtered_region
                /\ UNCHANGED heap
    /\ pc' = "category"
    /\ UNCHANGED <<source, exception, notices, df_original, df_filtered_region,
                   df_filtered_category, df, selected_region,
                   selected_category, selected_subcat, from_date, to_date,
                   total_sales, total_quantity, total_profit, margin_rate,
                   selected_kpi, monthly_grouped, product_grouped, top_10,
                   category_grouped, segment_grouped, year_filter,
                   month_filter, monthly_data>>

\* Lines 58-66: the Category picker and its filter.
SelectCategory ==
    /\ pc = "category"
    /\ \E choice \in {All} \cup Options(Rows(CategoryOptionsFrame), "Category") :
        /\ selected_category' = choice
        /\ IF choice # All
           THEN /\ heap' = Append(heap, SelectRows(Rows(df_filtered_state), "Category", choice))
                /\ df_filtered_category' = Len(heap) + 1
           ELSE /\ df_filtered_category' = df_filtered_state
                /\ UNCHANGED heap
    /\ pc' = "subcat"
    /\ UNCHANGED <<source, exception, notices, df_original, df_filtered_region,
                   df_filtered_state, df, selected_region, selected_state,
                   selected_subcat, from_date, to_date,
                   total_sales, total_quantity, total_profit, margin_rate,
                   selected_kpi, monthly_grouped, product_grouped, top_10,
                   category_grouped, segment_grouped, year_filter,
                   month_filter, monthly_data>>

\* Lines 68-75: the Sub-Category picker; df is a copy of the narrowed frame,
\* and a selection replaces it by the rows that match.
SelectSubCategory ==
    /\ pc = "subcat"
    /\ \E choice \in {All} \cup Options(Rows(SubcatOptionsFrame), "Sub-Category") :
        /\ selected_subcat' = choice
        /\ LET copied == Append(heap, Rows(df_filtered_category))
           IN IF choice # All
              THEN /\ heap' = Append(copied, SelectRows(Rows(df_filtered_category),
                                                       "Sub-Category", choice))
                   /\ df' = Len(heap) + 2
              ELSE /\ heap' = copied
                   /\ df' = Len(heap) + 1
    /\ pc' = "dates"
    /\ UNCHANGED <<source, exception, notices, df_original, df_filtered_region,
                   df_filtered_state, df_filtered_category, selected_region,
                   selected_state, selected_category, from_date, to_date,
                   total_sales, total_quantity, total_profit, margin_rate,
                   selected_kpi, monthly_grouped, product_grouped, top_10,
                   category_grouped, segment_grouped, year_filter,
                   month_filter, monthly_data>>

\* Line 94-95: the check of the two dates.
DateRangeNotices(from, to) ==
    IF from > to
    THEN {"From Date must be earlier than To Date."} ELSE {}

\* Lines 77-101: the date pickers, bounded by the first and last Order Date
\* of df (of df_original when df is empty), the check of their order, and
\* the date range filter.  A frame without a single Order Date has NaT for
\* both, which st.date_input cannot turn into a date: it raises.  Order
\* Dates are whole days, so a picked date compares with them as it is.
SelectDates ==
    /\ pc = "dates"
    /\ LET bounds == IF Rows(df) = <<>> THEN Rows(df_original) ELSE Rows(df)
           min_date == MinDate(bounds)
           max_date == MaxDate(bounds)
       IN IF min_date = NaT
          THEN /\ Raise("ValueError")
               /\ UNCHANGED <<from_date, to_date, notices, heap, df>>
          ELSE /\ \E from \in min_date..max_date, to \in min_date..max_date :
                    /\ from_date' = from
                    /\ to_date' = to
                    /\ notices' = notices \cup DateRangeNotices(from, to)
                    /\ heap' = Append(heap, SelectDateRange(Rows(df), from, to))
                    /\ df' = Len(heap) + 1
               /\ pc' = "kpis"
               /\ UNCHANGED exception
    /\ UNCHANGED <<source, df_original, df_filtered_region,
                   df_filtered_state, df_filtered_category, selected_region,
                   selected_state, selected_category, selected_subcat,
                   total_sales, total_quantity, total_profit, margin_rate,
                   selected_kpi, monthly_grouped, product_grouped, top_10,
                   category_grouped, segment_grouped, year_filter,
                   month_filter, monthly_data>>

\* Lines 103-171: the download button or its "no data" message, and the
\* four KPI tiles.
ComputeKpis ==
    /\ pc = "kpis"
    /\ notices' = notices \cup
                  (IF Rows(df) = <<>>
                   THEN {"No data available to download. Please adjust your filters."}
                   ELSE {})
    /\ total_sales' = format_number(SumColumn(Rows(df), "Sales"))
    /\ total_quantity' = QuantityText(Rows(df))
    /\ total_profit' = format_number(SumColumn(Rows(df), "Profit"))
    /\ margin_rate' = MarginRateText(Rows(df))
    /\ pc' = "select_kpi"
    /\ UNCHANGED <<source, exception, heap, df_original, df_filtered_region,
                   df_filtered_state, df_filtered_category, df,
                   selected_region, selected_state, selected_category,
                   selected_subcat, from_date, to_date, selected_kpi,
                   monthly_grouped, product_grouped, top_10, category_grouped,
                   segment_grouped, year_filter, month_filter, monthly_data>>

kpi_options == {"Sales", "Quantity", "Profit", "Margin Rate"}

\* Lines 222-227: the warning for an empty frame, else the KPI radio button;
\* selected_kpi is bound in the else branch alone.
SelectKpi ==
    /\ pc = "select_kpi"
    /\ IF Rows(df) = <<>>
       THEN /\ notices' = notices \cup
                  {"No data available for the selected filters and date range."}
            /\ UNCHANGED selected_kpi
       ELSE /\ \E choice \in kpi_options : selected_kpi' = choice
            /\ UNCHANGED notices
    /\ pc' = "chart_prep"
    /\ UNCHANGED <<source, exception, heap, df_original, df_filtered_region,
                   df_filtered_state, df_filtered_category, df,
                   selected_region, selected_state, selected_category,
                   selected_subcat, from_date, to_date, total_sales,
                   total_quantity, total_profit, margin_rate,
                   monthly_grouped, product_grouped, top_10, category_grouped,
                   segment_grouped, year_filter, month_filter, monthly_data>>

\* StoreFrame writing through to the loaded frame as well, as a write to a
\* view of it would.
StoreFrameThrough(h, ref, rows) == [h EXCEPT ![ref] = rows, ![1] = rows]

\* frame[col] = ... on the object a name refers to: the object is changed in
\* place, and no other object is.
StoreFrame(h, ref, rows) == [h EXCEPT ![ref] = rows]

\* Lines 229-252: the MonthYear column, the monthly and the product tables,
\* and the top 10 products by the selected KPI; reading selected_kpi raises
\* NameError when the radio button was never shown.
PrepareCharts ==
    /\ pc = "chart_prep"
    /\ LET frame == WithColumn(Rows(df), "MonthYear",
                               [i \in 1..Len(Rows(df)) |->
                                   MonthOf(Rows(df)[i]["Order Date"])])
       IN /\ heap' = StoreFrame(heap, df, frame)
          /\ monthly_grouped' = MonthlyGrouped(frame)
          /\ product_grouped' =
                IF selected_kpi = None THEN ProductGrouped(frame)
                ELSE SortDescending(ProductGrouped(frame), selected_kpi)
          /\ IF selected_kpi = None
             THEN /\ Raise("NameError")
                  /\ UNCHANGED top_10
             ELSE /\ top_10' = HeadRows(SortDescending(ProductGrouped(frame),
                                                       selected_kpi))
                  /\ pc' = "category_segment"
                  /\ UNCHANGED exception
    /\ UNCHANGED <<source, notices, df_original, df_filtered_region,
                   df_filtered_state, df_filtered_category, df,
                   selected_region, selected_state, selected_category,
                   selected_subcat, from_date, to_date, total_sales,
                   total_quantity, total_profit, margin_rate, selected_kpi,
                   category_grouped, segment_grouped, year_filter,
                   month_filter, monthly_data>>

\* Lines 295-385: the category and the segment tables behind the donut and
\* the bar chart.
GroupCategoryAndSegment ==
    /\ pc = "category_segment"
    /\ category_grouped' = CategoryGrouped(Rows(df))
    /\ segment_grouped' = SegmentGrouped(Rows(df))
    /\ pc' = "summary"
    /\ UNCHANGED <<source, exception, notices, heap, df_original,
                   df_filtered_region, df_filtered_state, df_filtered_category,
                   df, selected_region, selected_state, selected_category,
                   selected_subcat, from_date, to_date, total_sales,
                   total_quantity, total_profit, margin_rate, selected_kpi,
                   monthly_grouped, product_grouped, top_10, year_filter,
                   month_filter, monthly_data>>

\* Lines 400-402: df['Margin Rate'] = (df['Profit'] / df['Sales']) * 100,
\* row by row ('Sales' != 0 compares a string with 0 and is always true)
RowMarginRate(r) == Times(Divide(r["Profit"], r["Sales"]), 100)

\* Lines 393-402: the columns the summary adds to df.
SummaryFrame(rows) ==
    LET Each(f(_)) == [i \in 1..Len(rows) |-> f(rows[i])]
        parsed == WithColumn(rows, "Order Date", Each(LAMBDA r : r["Order Date"]))
        year == WithColumn(parsed, "Year", Each(LAMBDA r : YearOf(r["Order Date"])))
        month == WithColumn(year, "Month", Each(LAMBDA r : MonthOf(r["Order Date"])))
    IN WithColumn(month, "Margin Rate", Each(RowMarginRate))

\* Lines 387-424: the month-wise Sub-Category summary: the added columns,
\* the Year and Month pickers and the table of the selected KPI summed per
\* Sub-Category.  The run reaches these lines with a non-empty df only.
SummariseMonth ==
    /\ pc = "summary"
    /\ LET frame == SummaryFrame(Rows(df))
       IN /\ heap' = StoreFrame(heap, df, frame)
          /\ \E year \in ColumnValues(frame, "Year") :
             \E month \in ColumnValues(SelectSeq(frame, LAMBDA r : r["Year"] = year),
                                       "Month") :
                LET filtered_data ==
                        SelectSeq(frame, LAMBDA r : r["Year"] = year /\ r["Month"] = month)
                IN /\ year_filter' = year
                   /\ month_filter' = month
                   /\ IF selected_kpi \in DOMAIN frame[1]
                      THEN /\ monthly_data' = MonthlyData(filtered_data, month, selected_kpi)
                           /\ UNCHANGED notices
                      ELSE /\ notices' = notices \cup {"The selected KPI is not calculated or does not exist in the DataFrame."}
                           /\ UNCHANGED monthly_data
    /\ pc' = "done"
    /\ UNCHANGED <<source, exception, df_original, df_filtered_region,
                   df_filtered_state, df_filtered_category, df,
                   selected_region, selected_state, selected_category,
                   selected_subcat, from_date, to_date, total_sales,
                   total_quantity, total_profit, margin_rate, selected_kpi,
                   monthly_grouped, product_grouped, top_10, category_grouped,
                   segment_grouped>>

Next ==
    \/ LoadData
    \/ SelectRegion
    \/ SelectState
    \/ SelectCategory
    \/ SelectSubCategory
    \/ SelectDates
    \/ ComputeKpis
    \/ SelectKpi
    \/ PrepareCharts
    \/ GroupCategoryAndSegment
    \/ SummariseMonth

Spec == Init /\ [][Next]_vars

----------------------------------------------------------------------------
(* Properties *)

BaseColumns == {"Region", "State", "Category", "Sub-Category", "Product Name",
                "Segment", "Order Date", "Sales", "Quantity", "Profit"}

\* The rows of a frame without the columns the run adds to it.
Base(rows) == [i \in 1..Len(rows) |-> [c \in BaseColumns |-> rows[i][c]]]

\* The date range filter has run: df is the final filtered table.
Filtered ==
    \/ pc \in {"kpis", "select_kpi", "chart_prep", "category_segment",
               "summary", "done"}
    \/ pc = "raised" /\ exception = "NameError"

KpisComputed == Filtered /\ pc # "kpis"
KpiAsked == KpisComputed /\ pc # "select_kpi"
ChartsPrepared == pc \in {"category_segment", "summary", "done"}
GroupsBuilt == pc \in {"summary", "done"}

\* A row passes the picker of a column: the picker is at All or the cell is
\* the selected value.
Passes(r, col, selected) == selected = All \/ r[col] = selected

PassesAll(r) ==
    /\ Passes(r, "Region", selected_region)
    /\ Passes(r, "State", selected_state)
    /\ Passes(r, "Category", selected_category)
    /\ Passes(r, "Sub-Category", selected_subcat)
    /\ r["Order Date"] \in (from_date..to_date) \ {NaT}

AllPickersAtAll ==
    /\ selected_region = All /\ selected_state = All
    /\ selected_category = All /\ selected_subcat = All

\* The date pickers show their defaults, the first and last Order Date.
DatesAtDefault ==
    /\ from_date = MinDate(source.rows)
    /\ to_date = MaxDate(source.rows)

NoDataNotices ==
    {"No data available to download. Please adjust your filters.",
     "No data available for the selected filters and date range."}

\* C1: an empty filtered table is fully handled: the KPI tiles show zeros, a
\* "no data" notice is shown and the run raises no exception up to its end.
C1_EmptyTableHandled ==
    (Filtered /\ Rows(df) = <<>>) =>
        /\ exception = None
        /\ KpisComputed =>
              /\ total_sales = Text("$", 0, 2, "")
              /\ total_quantity = Text("", 0, 0, "")
              /\ total_profit = Text("$", 0, 2, "")
              /\ margin_rate = Text("", 0, 2, "%")
        /\ KpiAsked => notices \cap NoDataNotices # {}

ZeroSalesIsZeroMargin(grouped) ==
    \A i \in 1..Len(grouped) :
        grouped[i]["Sales"] = 0 => grouped[i]["Margin Rate"] = <<0, 1>>

\* C2: in the monthly, product, category and segment tables a group whose
\* Sales sum is 0 has Margin Rate 0, whatever its Profit sum.
C2_ZeroSalesGroupHasZeroMargin ==
    /\ ChartsPrepared =>
          /\ ZeroSalesIsZeroMargin(monthly_grouped)
          /\ ZeroSalesIsZeroMargin(product_grouped)
    /\ GroupsBuilt =>
          /\ ZeroSalesIsZeroMargin(category_grouped)
          /\ ZeroSalesIsZeroMargin(segment_grouped)

\* The Margin Rate of the rows of df with r[col] = key, as the ratio of their
\* sums times scale; TRUE when their Sales sum is 0 and the ratio undefined.
IsRatioOfSums(value, col, key, scale) ==
    LET group == SelectSeq(Rows(df), LAMBDA r : r[col] = key)
        sales == SumColumn(group, "Sales")
        profit == SumColumn(group, "Profit")
    IN sales # 0 => value = Fraction(profit * scale, sales)

\* C3: with Margin Rate selected, every Margin Rate shown for a group, the
\* month-wise Sub-Category summary included, is sum(Profit)/sum(Sales) over
\* the group's rows (as a ratio in the chart tables, as a percentage where
\* the script multiplies by 100).
C3_MarginRateIsRatioOfSums ==
    (pc = "done" /\ selected_kpi = "Margin Rate") =>
        /\ \A i \in 1..Len(monthly_grouped) :
              IsRatioOfSums(monthly_grouped[i]["Margin Rate"], "MonthYear",
                            monthly_grouped[i]["MonthYear"], 1)
        /\ \A i \in 1..Len(top_10) :
              IsRatioOfSums(top_10[i]["Margin Rate"], "Product Name",
                            top_10[i]["Product Name"], 1)
        /\ \A i \in 1..Len(category_grouped) :
              IsRatioOfSums(category_grouped[i]["Margin Rate"], "Category",
                            category_grouped[i]["Category"], 100)
        /\ \A i \in 1..Len(segment_grouped) :
              IsRatioOfSums(segment_grouped[i]["Margin Rate"], "Segment",
                            segment_grouped[i]["Segment"], 100)
        /\ \A i \in 1..Len(monthly_data) :
              LET group == SelectSeq(Rows(df), LAMBDA r :
                              /\ r["Month"] = month_filter
                              /\ r["Sub-Category"] = monthly_data[i]["Sub-Category"])
                  sales == SumColumn(group, "Sales")
                  profit == SumColumn(group, "Profit")
              IN sales # 0 =>
                    monthly_data[i]["Margin Rate"] = Fraction(profit * 100, sales)

\* C4: the final filtered table is exactly the rows of the loaded dataset
\* that pass every picker not at All and have their Order Date in
\* [from_date, to_date], both ends included, in the dataset's order.
C4_FilterIsConjunction ==
    Filtered => Base(Rows(df)) = SelectSeq(source.rows, PassesAll)

C4_Witness ==
    /\ Filtered
    /\ selected_region # All /\ selected_subcat # All
    /\ from_date = to_date /\ from_date = MaxDay
    /\ Len(source.rows) = MaxRows
    /\ Len(Rows(df)) = 1

\* C5 as stated: with every picker at All and the default dates the
\* filtered table is the loaded dataset.
C5_AllSentinelKeepsDataset ==
    (Filtered /\ AllPickersAtAll /\ DatesAtDefault) =>
        Base(Rows(df)) = source.rows

\* C5 amended: with every picker at All and the default dates the filtered
\* table is the loaded dataset without its rows that have no Order Date.
C5_AllSentinelKeepsDatedRows ==
    (Filtered /\ AllPickersAtAll /\ DatesAtDefault) =>
        Base(Rows(df)) = SelectSeq(source.rows, LAMBDA r : r["Order Date"] # NaT)

C5_Witness ==
    /\ Filtered /\ AllPickersAtAll /\ DatesAtDefault
    /\ Len(source.rows) = MaxRows
    /\ Len(Rows(df)) = 1

Descending(rows, kpi) ==
    \A i \in 1..Len(rows) : \A j \in 1..Len(rows) :
        i < j => ~Less(KpiValue(rows[i], kpi), KpiValue(rows[j], kpi))

\* C7: the top-10 product table is in descending order of the selected KPI,
\* has min(10, number of products) rows, one per product, and no product
\* left out has a larger value of the KPI than a product kept.
C7_TopTenSortedAndComplete ==
    ChartsPrepared =>
        LET products == Options(Rows(df), "Product Name")
            kept == {top_10[i]["Product Name"] : i \in 1..Len(top_10)}
        IN /\ Descending(top_10, selected_kpi)
           /\ Len(top_10) = IF Cardinality(products) < TopN
                             THEN Cardinality(products) ELSE TopN
           /\ Cardinality(kept) = Len(top_10)
           /\ kept \subseteq products
           /\ \A i \in 1..Len(top_10) :
                 top_10[i]["Sales"] =
                    SumColumn(SelectSeq(Rows(df), LAMBDA r :
                        r["Product Name"] = top_10[i]["Product Name"]), "Sales")
           /\ \A g \in {product_grouped[i] : i \in 1..Len(product_grouped)} :
                 g["Product Name"] \notin kept =>
                    \A i \in 1..Len(top_10) :
                        ~Less(KpiValue(top_10[i], selected_kpi),
                              KpiValue(g, selected_kpi))

C7_Witness ==
    /\ ChartsPrepared
    /\ Len(product_grouped) > TopN
    /\ Len(top_10) = TopN
    /\ selected_kpi = "Margin Rate"
    /\ top_10[1]["Product Name"] # "P01"

\* C8: a spreadsheet that cannot be read yields an empty dataset and a
\* warning, and the run goes on without raising.
C8_UnreadableSourceHandled ==
    ~source.readable =>
        /\ exception = None
        /\ pc # "load_data" =>
              /\ df_original # 0
              /\ Rows(df_original) = <<>>
              /\ notices # {}

\* Some row of the loaded dataset has value in col and passes the pickers
\* that come before col in the chain.
Occurs(value, col, earlier) ==
    \E i \in 1..Len(source.rows) :
        /\ source.rows[i][col] = value
        /\ \A e \in earlier : Passes(source.rows[i], e[1], e[2])

\* C9: every option a picker offers occurs in a row that passes the pickers
\* before it, so with a non-empty dataset the table is not empty before the
\* date filter, whatever is picked.
C9_OptionsComeFromNarrowedTable ==
    /\ pc = "state" =>
          \A o \in Options(Rows(StateOptionsFrame), "State") :
              Occurs(o, "State", {<<"Region", selected_region>>})
    /\ pc = "category" =>
          \A o \in Options(Rows(CategoryOptionsFrame), "Category") :
              Occurs(o, "Category", {<<"Region", selected_region>>,
                                     <<"State", selected_state>>})
    /\ pc = "subcat" =>
          \A o \in Options(Rows(SubcatOptionsFrame), "Sub-Category") :
              Occurs(o, "Sub-Category", {<<"Region", selected_region>>,
                                         <<"State", selected_state>>,
                                         <<"Category", selected_category>>})
    /\ (pc \in {"state", "category", "subcat", "dates"} /\ source.rows # <<>>) =>
          /\ Rows(df_filtered_region) # <<>>
          /\ df_filtered_state # 0 => Rows(df_filtered_state) # <<>>
          /\ df_filtered_category # 0 => Rows(df_filtered_category) # <<>>
          /\ df # 0 => Rows(df) # <<>>

C9_Witness ==
    /\ pc = "dates"
    /\ selected_region # All /\ selected_state # All
    /\ selected_category # All /\ selected_subcat # All
    /\ Len(source.rows) = MaxRows
    /\ Len(Rows(df)) = 1

\* C10: the loaded frame keeps the rows and the columns it was loaded with
\* for the whole run, also when the narrowed frames are the same object.
C10_LoadedFrameUnchanged ==
    df_original # 0 => Rows(df_original) = source.rows

C10_Witness ==
    /\ pc = "done"
    /\ AllPickersAtAll
    /\ df_filtered_category = df_original
    /\ Len(Rows(df)) = MaxRows
    /\ DOMAIN Rows(df)[1] # BaseColumns
    /\ DOMAIN Rows(df_original)[1] = BaseColumns

====
